---- MODULE Spec2Model ----
(***************************************************************************)
(* Session / round state machine of council-crisis-clash.                  *)
(*                                                                         *)
(* The repository holds three implementations of the session logic, each   *)
(* modelled by its own specification over its own variables:               *)
(*   SpecLocal  the in-browser session context                             *)
(*              (src/src/contexts/MultiplayerContext.tsx);                 *)
(*   Spec       the store-backed session context and game page             *)
(*              (src/frontend/src/contexts/MultiplayerContext.tsx,         *)
(*              src/frontend/src/services/gameService.ts, part_008);       *)
(*   SpecTest   the test-mode hook (src/frontend/src/hooks/useTestGame.ts).*)
(* A specification leaves the variables of the other two at their initial  *)
(* values.                                                                 *)
(***************************************************************************)
EXTENDS Integers, Sequences, FiniteSets, TLC

\* null for a uuid-valued field (uuids are numbered from 1)
NULL == 0

\* ---------------------------------------------------------------- bounds
MaxUuid == 6          \* uuidv4() calls modelled per behaviour (local context)
MaxTimeouts == 2      \* pending castVote setTimeout callbacks (local context)
MaxRoundL == 9        \* rounds explored in the local context
MaxRoundS == 2        \* rounds explored in the store-backed session
MaxRoundT == 11       \* rounds explored in test mode
MaxCalls == 2         \* recordVote calls in progress at once (test mode)
MaxEvents == 2        \* undelivered change events (test mode)
MaxInFlight == 3      \* requests, responses and change events in flight
MaxSockets == 6       \* sockets a WebSocketService creates per behaviour
MaxTime == 3          \* seconds a VotingPanel is given (60 in the pages)
MaxMounts == 2        \* VotingPanel instances per behaviour
MaxRequests == 2      \* generation requests counted per round

\* ------------------------------------------------------ program constants
ResourceTypes == {"tech", "manpower", "economy", "happiness", "trust"}

\* getInitialResources(): 75/60/80/90/70
InitialResources ==
  [t \in ResourceTypes |->
     CASE t = "tech" -> 75
       [] t = "manpower" -> 60
       [] t = "economy" -> 80
       [] t = "happiness" -> 90
       [] OTHER -> 70]

\* README: "Multiplayer (4 players/session)"
MaxPlayers == 4

\* games.max_rounds DEFAULT 10
MaxRounds == 10

\* fetchOutcome: const maxRetries = 3
maxRetries == 3

GeneratedCodes == {"CODE1"}          \* what generateSessionCode() may return
Codes == {"CODE1", "CODE2"}          \* session codes a caller may type

VARIABLES
  \* ---- local context (src/src/contexts/MultiplayerContext.tsx)
  playerId,          \* useState playerId: NULL or a uuid
  currentSession,    \* useState currentSession: NoSession or a GameSession
  gamePhase,         \* useState gamePhase
  timeouts,          \* castVote's pending setTimeout callbacks, oldest first;
                     \* each entry is the round in which it was scheduled
  nextUuid,          \* uuids handed out so far
  \* ---- the store (tables of part_013) behind the store-backed context
  games,             \* the session's row of table games
  dbPlayers,         \* the session's rows of table players, by player
  dbResources,       \* the session's row of table resources
  dbVotes,           \* the session's rows of table votes, in insertion order
  dbOutcome,         \* the coordinator's outcome per round (0: none yet)
  seq,               \* number of committed writes to the session's rows
  \* ---- store-backed clients (src/frontend/src/contexts/MultiplayerContext.tsx)
  cSession,          \* per client: useState currentSession
  cPlayerId,         \* per client: useState playerId
  cGamePhase,        \* per client: useState gamePhase
  sub,               \* per client: the live subscription and what its
                     \* callback closure captured
  pending,           \* per client: change events not yet handled
  net,               \* requests and responses in flight
  page,              \* per client: the route shown and the Game page's state
  \* ---- test mode (src/frontend/src/hooks/useTestGame.ts)
  testSessionId,     \* TestModeContext's testSessionId: NULL or the session
  tGame,             \* the test session's row of table games
  tResources,        \* the test session's row of table resources
  tVotes,            \* the test session's rows of table votes
  testGameState,     \* useTestGame's gameState: NULL or the current_round
                     \* of the last games row delivered
  tEvents,           \* change events of the games row not yet delivered
  calls,             \* recordVote calls suspended at an await
  voteError,         \* the last recordVote call logged "Error recording vote"
  \* ---- WebSocketService (src/frontend/src/services/websocket.ts)
  wsService,         \* "none" before the constructor ran, else whether
                     \* new WebSocket(url) succeeds ("ok") or throws ("throws")
  ws,                \* this.ws: "null" or the readyState of the socket it holds
  orphans,           \* sockets this.ws no longer refers to whose handlers are
                     \* still attached: how many per readyState
  reconnectAttempts, \* this.reconnectAttempts
  wsTimers,          \* pending setTimeout(() => this.connect()) callbacks
  wsCreated,         \* sockets created so far
  wsDisconnected,    \* disconnect() was called and connect() was not called
                     \* by the caller since
  \* ---- VotingPanel (one instance at a time)
  vpMounted,         \* the panel is mounted
  selectedOption,    \* useState: the selected option, NULL for none
  timeLeft,          \* useState: seconds left
  hasVoted,          \* useState: the vote was sent
  vpEffectDue,       \* the last render changed a dependency of the timer effect
  vpTimer,           \* the effect's setTimeout is pending
  selectedAt,        \* timeLeft at the moment selectedOption was set
  onVoteCalls,       \* the calls of onVote by this instance: the option and
                     \* the time left when it was selected
  vpMounts,          \* panels mounted so far
  \* ---- the Game page of the host client: the secret incentive
  fetchedRound,      \* useState: the round whose incentive was fetched, or NULL
  generateDeps,      \* the dependencies the generateIncentive effect last ran with
  pollDeps,          \* the same of the pollForSecretIncentive effect
  polling,           \* the rounds a pollForSecretIncentive call is running for
  generateRequests   \* the POSTs to secret_incentive so far, per round

localVars == <<playerId, currentSession, gamePhase, timeouts, nextUuid>>

dbVars == <<games, dbPlayers, dbResources, dbVotes, dbOutcome, seq>>

clientVars ==
  <<cSession, cPlayerId, cGamePhase, sub, pending, net, page>>

storeVars == <<dbVars, clientVars>>

testVars ==
  <<testSessionId, tGame, tResources, tVotes, testGameState, tEvents, calls,
    voteError>>

wsVars ==
  <<wsService, ws, orphans, reconnectAttempts, wsTimers, wsCreated,
    wsDisconnected>>

vpVars ==
  <<vpMounted, selectedOption, timeLeft, hasVoted, vpEffectDue, vpTimer,
    selectedAt, onVoteCalls, vpMounts>>

incVars ==
  <<fetchedRound, generateDeps, pollDeps, polling, generateRequests>>

auxVars == <<wsVars, vpVars, incVars>>

vars == <<localVars, storeVars, testVars, auxVars>>

\* ======================================================================
\* Local context
\* ======================================================================

Min(a, b) == IF a < b THEN a ELSE b
Max(a, b) == IF a > b THEN a ELSE b

\* Math.min(Math.max(v + d, 0), 100)
Clamp(v) == Min(Max(v, 0), 100)

\* nextRound draws Math.floor(Math.random() * 20) - 10 per resource: -10..9.
\* The model draws one of these delta maps: trust falls by 10 in both, so it
\* reaches 0 after seven rounds; tech may rise by 9, up to the clamp at 100.
RoundDeltas ==
  { [t \in ResourceTypes |->
       IF t = "trust" THEN -10 ELSE IF t = "tech" THEN 9 ELSE 0],
    [t \in ResourceTypes |-> IF t = "trust" THEN -10 ELSE 0] }

\* createGameSession(hostName) with a drawn code and host uuid
createGameSession(code, hostId) ==
  [ code |-> code,
    hostId |-> hostId,
    players |-> << [id |-> hostId, isReady |-> TRUE, hasVoted |-> FALSE,
                    isEliminated |-> FALSE] >>,
    status |-> "waiting",
    currentRound |-> 1,
    resources |-> InitialResources,
    hasScenario |-> FALSE ]

\* the value of currentSession when it is null
NoSession ==
  [ code |-> "",
    hostId |-> NULL,
    players |-> << >>,
    status |-> "none",
    currentRound |-> 0,
    resources |-> InitialResources,
    hasScenario |-> FALSE ]

\* players.findIndex(p => p.id === playerId): 0 when absent
FindIndex(players, id) ==
  IF \E i \in 1..Len(players) : players[i].id = id
  THEN CHOOSE i \in 1..Len(players) :
         /\ players[i].id = id
         /\ \A j \in 1..(i-1) : players[j].id # id
  ELSE 0

LocalInit ==
  /\ playerId = NULL
  /\ currentSession = NoSession
  /\ gamePhase = "scenario"
  /\ timeouts = << >>
  /\ nextUuid = 0

\* isHost of the context value
isHost ==
  currentSession # NoSession /\ playerId # NULL /\ currentSession.hostId = playerId

\* createSession(name)
createSession ==
  /\ nextUuid + 2 <= MaxUuid
  /\ \E code \in GeneratedCodes :
       LET newPlayerId == nextUuid + 1
           hostId == nextUuid + 2
           session == createGameSession(code, hostId)
       IN /\ playerId' = newPlayerId
          /\ currentSession' =
               [session EXCEPT !.players[1].id = newPlayerId]
  /\ nextUuid' = nextUuid + 2
  /\ UNCHANGED <<gamePhase, timeouts>>
  /\ UNCHANGED <<storeVars, testVars, auxVars>>

\* the player record joinSession pushes
JoinedPlayers(session, newPlayerId) ==
  Append(session.players,
         [id |-> newPlayerId, isReady |-> FALSE, hasVoted |-> FALSE,
          isEliminated |-> FALSE])

\* joinSession that assigns the player id before it validates the code
joinSessionIdFirst(sessionCode) ==
  /\ nextUuid + 1 <= MaxUuid
  /\ playerId' = nextUuid + 1
  /\ nextUuid' = nextUuid + 1
  /\ currentSession' =
       IF currentSession # NoSession /\ currentSession.code = sessionCode
       THEN [currentSession EXCEPT
               !.players = JoinedPlayers(currentSession, nextUuid + 1)]
       ELSE currentSession
  /\ UNCHANGED <<gamePhase, timeouts>>

\* joinSession(sessionCode, name)
joinSessionWith(sessionCode) ==
  IF currentSession # NoSession /\ currentSession.code = sessionCode
  THEN /\ nextUuid + 1 <= MaxUuid
       /\ playerId' = nextUuid + 1
       /\ nextUuid' = nextUuid + 1
       /\ currentSession' =
            [currentSession EXCEPT
               !.players = JoinedPlayers(currentSession, nextUuid + 1)]
       /\ UNCHANGED <<gamePhase, timeouts>>
  ELSE \* throw new Error("Invalid session code"): only the error is set
       UNCHANGED localVars

joinSession ==
  /\ \E sessionCode \in Codes : joinSessionWith(sessionCode)
  /\ UNCHANGED <<storeVars, testVars, auxVars>>

\* leaveSession()
leaveSession ==
  /\ currentSession # NoSession
  /\ currentSession' = NoSession
  /\ playerId' = NULL
  /\ UNCHANGED <<gamePhase, timeouts, nextUuid>>
  /\ UNCHANGED <<storeVars, testVars, auxVars>>

\* startGame()
startGame ==
  /\ currentSession # NoSession
  /\ \E i \in 1..Len(currentSession.players) : currentSession.players[i].isReady
  /\ currentSession' =
       [currentSession EXCEPT !.status = "in-progress", !.hasScenario = TRUE]
  /\ gamePhase' = "scenario"
  /\ UNCHANGED <<playerId, timeouts, nextUuid>>
  /\ UNCHANGED <<storeVars, testVars, auxVars>>

\* endGame()
endGame ==
  /\ currentSession # NoSession
  /\ currentSession.status # "completed"
  /\ currentSession' = [currentSession EXCEPT !.status = "completed"]
  /\ UNCHANGED <<playerId, gamePhase, timeouts, nextUuid>>
  /\ UNCHANGED <<storeVars, testVars, auxVars>>

\* setPlayerReady(isReady)
setPlayerReady ==
  /\ currentSession # NoSession
  /\ playerId # NULL
  /\ \E isReady \in BOOLEAN :
       LET playerIndex == FindIndex(currentSession.players, playerId)
       IN /\ playerIndex # 0
          /\ currentSession.players[playerIndex].isReady # isReady
          /\ currentSession' =
               [currentSession EXCEPT !.players[playerIndex].isReady = isReady]
  /\ UNCHANGED <<playerId, gamePhase, timeouts, nextUuid>>
  /\ UNCHANGED <<storeVars, testVars, auxVars>>

\* castVote(optionId): marks the caller voted and schedules the 2 s timeout
castVote ==
  /\ currentSession # NoSession
  /\ playerId # NULL
  /\ Len(timeouts) < MaxTimeouts
  /\ LET playerIndex == FindIndex(currentSession.players, playerId)
     IN /\ playerIndex # 0
        /\ currentSession' =
             [currentSession EXCEPT !.players[playerIndex].hasVoted = TRUE]
        /\ timeouts' = Append(timeouts, currentSession.currentRound)
  /\ UNCHANGED <<playerId, gamePhase, nextUuid>>
  /\ UNCHANGED <<storeVars, testVars, auxVars>>

\* the setTimeout callback of castVote: setGamePhase('results')
voteTimeout ==
  /\ timeouts # << >>
  /\ timeouts' = Tail(timeouts)
  /\ gamePhase' = "results"
  /\ UNCHANGED <<playerId, currentSession, nextUuid>>
  /\ UNCHANGED <<storeVars, testVars, auxVars>>

\* nextRound() without the reset of the players' votes
nextRoundKeepsVotes ==
  /\ currentSession # NoSession
  /\ currentSession.currentRound < MaxRoundL
  /\ \E d \in RoundDeltas :
       currentSession' =
         [currentSession EXCEPT
            !.currentRound = currentSession.currentRound + 1,
            !.resources = [t \in ResourceTypes |->
                             Clamp(currentSession.resources[t] + d[t])],
            !.hasScenario = TRUE]
  /\ gamePhase' = "scenario"
  /\ UNCHANGED <<playerId, timeouts, nextUuid>>
  /\ UNCHANGED <<storeVars, testVars, auxVars>>

\* nextRound()
nextRound ==
  /\ currentSession # NoSession
  /\ currentSession.currentRound < MaxRoundL
  /\ \E d \in RoundDeltas :
       currentSession' =
         [currentSession EXCEPT
            !.currentRound = currentSession.currentRound + 1,
            !.players = [i \in 1..Len(currentSession.players) |->
                           [currentSession.players[i] EXCEPT !.hasVoted = FALSE]],
            !.resources = [t \in ResourceTypes |->
                             Clamp(currentSession.resources[t] + d[t])],
            !.hasScenario = TRUE]
  /\ gamePhase' = "scenario"
  /\ UNCHANGED <<playerId, timeouts, nextUuid>>
  /\ UNCHANGED <<storeVars, testVars, auxVars>>

\* ======================================================================
\* The store and the Session Coordinator
\* ======================================================================

Clients == {"c1", "c2"}

\* the client that creates the session (the other one joins it)
Hosts == {"c1"}

\* players.id, the row's own uuid; getGameState keys the roster by it
\* (acc[player.id]), where players.player_id is the player's id
RowId(c) == IF c = "c1" THEN "row1" ELSE "row2"

\* one generated outcome: its resource deltas
OutcomeDeltas ==
  [o \in {1, 2} |->
     [t \in ResourceTypes |->
        IF o = 1 THEN (IF t = "trust" THEN -10 ELSE 0)
        ELSE (IF t = "tech" THEN 5 ELSE IF t = "happiness" THEN -5 ELSE 0)]]

Rounds == 1..MaxRoundS

NoGame ==
  [ exists |-> FALSE, host_id |-> "", phase |-> "lobby", current_round |-> 1,
    current_scenario |-> 0, timer_running |-> FALSE, timer_end_time |-> 0,
    is_active |-> TRUE ]      \* games.is_active BOOLEAN DEFAULT true

NoPlayerRow ==
  [ joined |-> FALSE, is_active |-> FALSE, has_voted |-> FALSE ]

\* what gameService.getGameState(sessionId) returns: the games row, the
\* players rows keyed by row id, the resources row.  Table players has no
\* is_eliminated column, so player.is_eliminated reads as undefined (falsy).
getGameState ==
  [ phase |-> games.phase,
    current_round |-> games.current_round,
    current_scenario |-> games.current_scenario,
    timer_running |-> games.timer_running,
    timer_end_time |-> games.timer_end_time,
    players |-> { [id |-> RowId(p), has_voted |-> dbPlayers[p].has_voted,
                   is_eliminated |-> FALSE] :
                  p \in {q \in Clients : dbPlayers[q].joined} },
    resources |-> dbResources,
    seq |-> seq ]

NoSnapshot ==
  [ phase |-> "lobby", current_round |-> 0, current_scenario |-> 0,
    timer_running |-> FALSE, timer_end_time |-> 0, players |-> {},
    resources |-> InitialResources, seq |-> 0 ]

\* ---- requests and responses in flight, all of one shape
Msg(kind, c) ==
  [ kind |-> kind, c |-> c, snap |-> NoSnapshot, cloScenario |-> FALSE,
    retries |-> 0, ignore |-> FALSE ]

SumPending == pending["c1"] + pending["c2"]

InFlight == Cardinality(net) + SumPending

Subscribers == {c \in Clients : sub[c].active}

\* room for k more messages and one change event per subscriber
Room(k) == InFlight + k + Cardinality(Subscribers) <= MaxInFlight

\* a change of the session's rows is notified to every live subscription
Notified == [c \in Clients |-> IF sub[c].active THEN pending[c] + 1 ELSE pending[c]]

\* ---- Session Coordinator commands (the backend behind /api/games)

\* POST /api/games: a lobby session with its host and resources
CoordCreate(host) ==
  /\ games' = [NoGame EXCEPT !.exists = TRUE, !.host_id = host]
  /\ dbPlayers' = [dbPlayers EXCEPT ![host] =
                     [NoPlayerRow EXCEPT !.joined = TRUE, !.is_active = TRUE]]
  /\ dbResources' = InitialResources
  /\ dbVotes' = << >>
  /\ dbOutcome' = [r \in Rounds |-> 0]
  /\ seq' = seq + 1

\* outcome application without the round guard
ApplyOutcomeUnguarded(o) ==
  /\ dbOutcome' = [dbOutcome EXCEPT ![games.current_round] = o]
  /\ dbResources' =
       [t \in ResourceTypes |-> dbResources[t] + OutcomeDeltas[o][t]]

\* apply the round's outcome once: guarded by the round's recorded outcome
ApplyOutcome(o) ==
  IF dbOutcome[games.current_round] = 0
  THEN /\ dbOutcome' = [dbOutcome EXCEPT ![games.current_round] = o]
       /\ dbResources' =
            [t \in ResourceTypes |-> dbResources[t] + OutcomeDeltas[o][t]]
  ELSE UNCHANGED <<dbOutcome, dbResources>>

ActivePlayers == {p \in Clients : dbPlayers[p].is_active}

Depleted == \E t \in ResourceTypes : dbResources[t] <= 0

\* POST /api/games/{id}/start: start from the lobby, advance from results
CoordStartOrAdvance ==
  /\ games.exists
  /\ \/ /\ games.phase = "lobby"
        /\ games' = [games EXCEPT !.phase = "scenario",
                                  !.current_scenario = games.current_round]
        /\ UNCHANGED dbPlayers
     \/ /\ games.phase = "results"
        /\ IF \/ games.current_round = MaxRounds
              \/ Cardinality(ActivePlayers) <= 1
              \/ Depleted
           THEN /\ games' = [games EXCEPT !.phase = "game_over"]
                /\ UNCHANGED dbPlayers
           ELSE /\ games.current_round < MaxRoundS
                /\ games' = [games EXCEPT
                               !.phase = "scenario",
                               !.current_round = games.current_round + 1,
                               !.current_scenario = games.current_round + 1,
                               !.timer_running = FALSE,
                               !.timer_end_time = 0]
                /\ dbPlayers' = [p \in Clients |->
                                   [dbPlayers[p] EXCEPT !.has_voted = FALSE]]

\* startTimer / stopTimer of the coordinator's timer endpoints
CoordStartTimer(g) ==
  [g EXCEPT !.timer_running = TRUE, !.timer_end_time = g.current_round]

CoordStopTimer(g) == [g EXCEPT !.timer_running = FALSE]

\* table votes without its UNIQUE constraint
VoteAcceptedNoUnique(rows, row) == row.round # NULL

\* ---- table votes: round INTEGER NOT NULL, UNIQUE(session_id, player_id, round)
VoteAccepted(rows, row) ==
  /\ row.round # NULL
  /\ \A i \in 1..Len(rows) :
       ~(rows[i].player_id = row.player_id /\ rows[i].round = row.round)

InsertVote(rows, row) ==
  IF VoteAccepted(rows, row) THEN Append(rows, row) ELSE rows

\* ======================================================================
\* Store-backed context and Game page
\* ======================================================================

NoCSession ==
  [ has |-> FALSE, phase |-> "lobby", currentRound |-> 0, scenario |-> 0,
    scenOutcome |-> 0, players |-> {}, resources |-> InitialResources,
    timer_running |-> FALSE, timer_end_time |-> 0,
    seq |-> 0 ]     \* seq: which state of the store the session was last taken from

\* deps of the subscription effect: [session_id, navigate, playerId, gamePhase]
SubDeps(c) == <<cSession[c].has, cPlayerId[c], cGamePhase[c]>>

NoSub ==
  [ active |-> FALSE, deps |-> <<FALSE, "", "lobby">>, phase |-> "lobby",
    hasScenario |-> FALSE ]

\* deps of the outcome effect: [currentGamePhase, session_id, outcome]
OutcomeDeps(c) == <<cSession[c].phase, cSession[c].has, cSession[c].scenOutcome>>

HomePage == [ route |-> "home", mountRan |-> FALSE, outcome |-> 0,
              outDeps |-> <<"", FALSE, 0>> ]

\* the Game page as it mounts
GamePage == [HomePage EXCEPT !.route = "game"]

\* the roster as the context maps it from a fetched state
MapPlayers(gameState) ==
  { [id |-> r.id, hasVoted |-> r.has_voted, isEliminated |-> r.is_eliminated] :
    r \in gameState.players }

\* React runs the effects a render leaves due before anything else happens
SubscriptionDue(c) == SubDeps(c) # sub[c].deps
MountDue(c) == page[c].route = "game" /\ ~page[c].mountRan
OutcomeDue(c) == page[c].route = "game" /\ page[c].outDeps # OutcomeDeps(c)
EffectsDue(c) == SubscriptionDue(c) \/ MountDue(c) \/ OutcomeDue(c)
AnyEffectsDue == \E c \in Clients : EffectsDue(c)

StoreInit ==
  /\ games = NoGame
  /\ dbPlayers = [p \in Clients |-> NoPlayerRow]
  /\ dbResources = InitialResources
  /\ dbVotes = << >>
  /\ dbOutcome = [r \in Rounds |-> 0]
  /\ seq = 0
  /\ cSession = [c \in Clients |-> NoCSession]
  /\ cPlayerId = [c \in Clients |-> ""]
  /\ cGamePhase = [c \in Clients |-> "lobby"]
  /\ sub = [c \in Clients |-> NoSub]
  /\ pending = [c \in Clients |-> 0]
  /\ net = {}
  /\ page = [c \in Clients |-> HomePage]

\* createSession(name): POST /api/games, then the session as the client
\* assumes it
CtxCreateSession(c) ==
  /\ ~games.exists
  /\ ~cSession[c].has
  /\ ~AnyEffectsDue
  /\ CoordCreate(c)
  /\ cPlayerId' = [cPlayerId EXCEPT ![c] = c]
  /\ cSession' = [cSession EXCEPT ![c] =
       [NoCSession EXCEPT
          !.has = TRUE, !.currentRound = 1, !.seq = seq + 1,
          !.players = {[id |-> c, hasVoted |-> FALSE, isEliminated |-> FALSE]}]]
  /\ page' = [page EXCEPT ![c] = [HomePage EXCEPT !.route = "lobby"]]
  /\ UNCHANGED <<cGamePhase, sub, pending, net>>
  /\ UNCHANGED <<localVars, testVars, auxVars>>

\* joinSession(sessionId, name): gameService.joinGame, then getGameState
CtxJoinSession(c) ==
  /\ games.exists
  /\ ~cSession[c].has
  /\ ~dbPlayers[c].joined
  /\ ~AnyEffectsDue
  /\ Room(0)
  /\ dbPlayers' = [dbPlayers EXCEPT ![c] =
                     [NoPlayerRow EXCEPT !.joined = TRUE, !.is_active = TRUE]]
  /\ LET gameState == [getGameState EXCEPT
                         !.players = @ \cup {[id |-> RowId(c), has_voted |-> FALSE,
                                              is_eliminated |-> FALSE]},
                         !.seq = seq + 1]
     IN cSession' = [cSession EXCEPT ![c] =
          [NoCSession EXCEPT
             !.has = TRUE, !.phase = gameState.phase,
             !.players = MapPlayers(gameState),
             !.resources = gameState.resources,
             !.currentRound = gameState.current_round,
             !.scenario = gameState.current_scenario,
             !.seq = gameState.seq]]
  /\ seq' = seq + 1
  /\ cPlayerId' = [cPlayerId EXCEPT ![c] = c]
  /\ page' = [page EXCEPT ![c] = [HomePage EXCEPT !.route = "lobby"]]
  /\ pending' = Notified
  /\ UNCHANGED <<games, dbResources, dbVotes, dbOutcome, cGamePhase, sub, net>>
  /\ UNCHANGED <<localVars, testVars, auxVars>>

\* gameService.updateGamePhase(sessionId, phase): the phase column is set to
\* what the caller passes
updateGamePhase(g, phase) == [g EXCEPT !.phase = phase]

\* the subscription effect: subscribe again with a callback that closes over
\* the session of this render
Resubscribe(c) ==
  /\ SubscriptionDue(c)
  /\ sub' = [sub EXCEPT ![c] =
       IF cSession[c].has
       THEN [ active |-> TRUE, deps |-> SubDeps(c), phase |-> cSession[c].phase,
              hasScenario |-> cSession[c].scenario # 0 ]
       ELSE [sub[c] EXCEPT !.deps = SubDeps(c)]]
  /\ UNCHANGED <<dbVars, cSession, cPlayerId, cGamePhase, pending, net, page>>
  /\ UNCHANGED <<localVars, testVars, auxVars>>

\* navigate("/game?..."): the Game page mounts unless it is already shown
Navigate(pg) == IF pg.route = "game" THEN pg ELSE GamePage

\* a change event: subscribeToGame's handler awaits getGameState and calls the
\* context's callback, which closes over sub[c]
HandleEvent(c) ==
  /\ pending[c] > 0
  /\ ~AnyEffectsDue
  /\ LET gameState == getGameState
         toScenario == gameState.phase = "scenario" /\ sub[c].phase # "scenario"
         toResults == gameState.phase = "results" /\ sub[c].phase # "results"
         start == toScenario /\ ~gameState.timer_running
         stop == ~toScenario /\ toResults /\ gameState.timer_running
         events == IF start \/ stop THEN Cardinality(Subscribers) ELSE 0
         fetches == IF toScenario THEN 0 ELSE 1
     IN /\ InFlight - 1 + events + fetches <= MaxInFlight
        /\ games' = IF start THEN CoordStartTimer(games)
                    ELSE IF stop THEN CoordStopTimer(games)
                    ELSE games
        /\ seq' = IF start \/ stop THEN seq + 1 ELSE seq
        /\ pending' = [d \in Clients |->
                         (IF d = c THEN pending[d] - 1 ELSE pending[d])
                         + (IF (start \/ stop) /\ sub[d].active THEN 1 ELSE 0)]
        /\ cGamePhase' = [cGamePhase EXCEPT ![c] = gameState.phase]
        /\ cSession' = [cSession EXCEPT ![c] =
             IF ~cSession[c].has THEN cSession[c]
             ELSE IF toScenario THEN [cSession[c] EXCEPT !.phase = "scenario"]
             ELSE IF toResults THEN [cSession[c] EXCEPT !.phase = "results"]
             ELSE cSession[c]]
        /\ page' = [page EXCEPT ![c] = IF toScenario THEN Navigate(page[c]) ELSE page[c]]
        /\ net' = IF toScenario THEN net
                  ELSE net \cup {[Msg("fetch2", c) EXCEPT
                                    !.snap = gameState,
                                    !.cloScenario = sub[c].hasScenario]}
  /\ UNCHANGED <<dbPlayers, dbResources, dbVotes, dbOutcome, cPlayerId, sub>>
  /\ UNCHANGED <<localVars, testVars, auxVars>>

\* the callback's own getGameState resolves: .then((latestGameState) => ...)
ApplyFetch2(m) ==
  /\ m \in net
  /\ m.kind = "fetch2"
  /\ ~AnyEffectsDue
  /\ net' = net \ {m}
  /\ cSession' = [cSession EXCEPT ![m.c] =
       IF ~cSession[m.c].has THEN cSession[m.c]
       ELSE IF m.snap.current_scenario # 0 /\ ~m.cloScenario
       THEN [cSession[m.c] EXCEPT !.scenario = m.snap.current_scenario,
                                  !.scenOutcome = 0]
       ELSE [cSession[m.c] EXCEPT
               !.players = MapPlayers(m.snap),
               !.resources = m.snap.resources,
               !.currentRound = m.snap.current_round,
               !.phase = m.snap.phase,
               !.scenario = m.snap.current_scenario,
               !.scenOutcome = 0,
               !.timer_running = m.snap.timer_running,
               !.timer_end_time = m.snap.timer_end_time,
               !.seq = m.snap.seq]]
  /\ UNCHANGED <<dbVars, cPlayerId, cGamePhase, sub, pending, page>>
  /\ UNCHANGED <<localVars, testVars, auxVars>>

\* the Game page's mount effect: without a scenario, fetch the game state
MountEffect(c) ==
  /\ MountDue(c)
  /\ page' = [page EXCEPT ![c].mountRan = TRUE]
  /\ net' = IF cSession[c].has /\ cSession[c].scenario = 0
            THEN net \cup {[Msg("mount", c) EXCEPT !.snap = getGameState]}
            ELSE net
  /\ UNCHANGED <<dbVars, cSession, cPlayerId, cGamePhase, sub, pending>>
  /\ UNCHANGED <<localVars, testVars, auxVars>>

\* the mount effect's fetch resolves: set the scenario, then write the fetched
\* phase back with updateGamePhase
ApplyMount(m) ==
  /\ m \in net
  /\ m.kind = "mount"
  /\ ~AnyEffectsDue
  /\ net' = net \ {m}
  /\ IF m.snap.current_scenario # 0
     THEN /\ InFlight - 1 + Cardinality(Subscribers) <= MaxInFlight
          /\ cSession' = [cSession EXCEPT ![m.c] =
               IF ~cSession[m.c].has THEN cSession[m.c]
               ELSE [cSession[m.c] EXCEPT !.scenario = m.snap.current_scenario,
                                          !.scenOutcome = 0]]
          /\ games' = updateGamePhase(games, m.snap.phase)
          /\ seq' = seq + 1
          /\ pending' = Notified
     ELSE UNCHANGED <<cSession, games, seq, pending>>
  /\ UNCHANGED <<dbPlayers, dbResources, dbVotes, dbOutcome, cPlayerId,
                 cGamePhase, sub, page>>
  /\ UNCHANGED <<localVars, testVars, auxVars>>

\* fetchOutcome's canned text once its retries are used up
FallbackOutcome == 3

\* the Game page's outcome effect: its cleanup sets `ignore` for the requests
\* of the previous run; in results it shows the session's outcome or posts
\* for one
OutcomeEffect(c) ==
  /\ OutcomeDue(c)
  /\ LET ignored == {IF m.kind = "outcomeReq" /\ m.c = c
                     THEN [m EXCEPT !.ignore = TRUE] ELSE m : m \in net}
         inResults == cSession[c].has /\ cSession[c].phase = "results"
     IN /\ page' = [page EXCEPT
                      ![c].outDeps = OutcomeDeps(c),
                      ![c].outcome = IF ~inResults THEN @
                                     ELSE cSession[c].scenOutcome]
        /\ net' = IF inResults /\ cSession[c].scenOutcome = 0
                  THEN ignored \cup {Msg("outcomeReq", c)}
                  ELSE ignored
  /\ UNCHANGED <<dbVars, cSession, cPlayerId, cGamePhase, sub, pending>>
  /\ UNCHANGED <<localVars, testVars, auxVars>>

\* POST /api/games/{id}/scenario/outcome is answered with the round's outcome:
\* the coordinator applies it if the round has none yet
OutcomeAnswered(m) ==
  /\ InFlight - 1 + Cardinality(Subscribers) <= MaxInFlight
  /\ \E o \in DOMAIN OutcomeDeltas : ApplyOutcome(o)
  /\ pending' = IF dbOutcome[games.current_round] = 0 THEN Notified ELSE pending
  /\ seq' = IF dbOutcome[games.current_round] = 0 THEN seq + 1 ELSE seq
  /\ net' = net \ {m}
  /\ IF m.ignore
     THEN UNCHANGED <<page, cSession>>
     ELSE /\ page' = [page EXCEPT ![m.c].outcome = dbOutcome'[games.current_round]]
          /\ cSession' = [cSession EXCEPT ![m.c] =
               IF ~cSession[m.c].has THEN cSession[m.c]
               ELSE [cSession[m.c] EXCEPT
                       !.scenOutcome = dbOutcome'[games.current_round]]]

\* the failure handler without the fallback after the last retry
OutcomeFailedNoFallback(m) ==
  /\ UNCHANGED <<dbOutcome, dbResources, seq, pending, cSession>>
  /\ UNCHANGED page
  /\ IF ~m.ignore /\ m.retries < maxRetries
     THEN net' = (net \ {m}) \cup {[m EXCEPT !.retries = m.retries + 1]}
     ELSE net' = net \ {m}

\* ... or, outside the results phase, with an error: retry up to maxRetries,
\* then fall back
OutcomeFailed(m) ==
  /\ UNCHANGED <<dbOutcome, dbResources, seq, pending, cSession>>
  /\ IF m.ignore
     THEN /\ net' = net \ {m}
          /\ UNCHANGED page
     ELSE IF m.retries < maxRetries
     THEN /\ net' = (net \ {m}) \cup {[m EXCEPT !.retries = m.retries + 1]}
          /\ UNCHANGED page
     ELSE /\ net' = net \ {m}
          /\ page' = [page EXCEPT ![m.c].outcome = FallbackOutcome]

ServeOutcome(m) ==
  /\ m \in net
  /\ m.kind = "outcomeReq"
  /\ ~AnyEffectsDue
  /\ IF games.exists /\ games.phase = "results"
     THEN OutcomeAnswered(m)
     ELSE OutcomeFailed(m)
  /\ UNCHANGED <<games, dbPlayers, dbVotes, cPlayerId, cGamePhase, sub>>
  /\ UNCHANGED <<localVars, testVars, auxVars>>

\* startGame(): POST /api/games/{id}/start
CtxStartGame(c) ==
  /\ cSession[c].has
  /\ ~AnyEffectsDue
  /\ Room(0)
  /\ CoordStartOrAdvance
  /\ seq' = seq + 1
  /\ pending' = Notified
  /\ UNCHANGED <<dbResources, dbVotes, dbOutcome>>
  /\ UNCHANGED <<cSession, cPlayerId, cGamePhase, sub, net, page>>
  /\ UNCHANGED <<localVars, testVars, auxVars>>

\* nextRound(): the same POST, then currentRound + 1 in the cached session.
\* The Game page offers it (handleNextRound) while it shows the results.
CtxNextRound(c) ==
  /\ cSession[c].has
  /\ page[c].route = "game"
  /\ cSession[c].phase = "results"
  /\ ~AnyEffectsDue
  /\ Room(0)
  /\ CoordStartOrAdvance
  /\ seq' = seq + 1
  /\ pending' = Notified
  /\ cSession' = [cSession EXCEPT ![c].currentRound = @ + 1]
  /\ UNCHANGED <<dbResources, dbVotes, dbOutcome>>
  /\ UNCHANGED <<cPlayerId, cGamePhase, sub, net, page>>
  /\ UNCHANGED <<localVars, testVars, auxVars>>

\* castVote(optionId): gameService.recordVote inserts {session_id, player_id,
\* option}, a row without a round; on success the caller is marked voted
CtxCastVote(c) ==
  /\ cSession[c].has
  /\ cPlayerId[c] # ""
  /\ ~AnyEffectsDue
  /\ LET row == [player_id |-> cPlayerId[c], round |-> NULL]
     IN /\ dbVotes' = InsertVote(dbVotes, row)
        /\ seq' = IF VoteAccepted(dbVotes, row) THEN seq + 1 ELSE seq
        /\ cSession' = [cSession EXCEPT ![c].players =
             IF VoteAccepted(dbVotes, row)
             THEN { IF p.id = cPlayerId[c] THEN [p EXCEPT !.hasVoted = TRUE] ELSE p :
                    p \in cSession[c].players }
             ELSE @]
  /\ UNCHANGED <<games, dbPlayers, dbResources, dbOutcome>>
  /\ UNCHANGED <<cPlayerId, cGamePhase, sub, pending, net, page>>
  /\ UNCHANGED <<localVars, testVars, auxVars>>

\* leaveSession(): gameService.leaveGame updates players.is_active in the
\* store, then the client forgets the session
CtxLeaveSession(c) ==
  /\ cSession[c].has
  /\ cPlayerId[c] # ""
  /\ ~AnyEffectsDue
  /\ Room(0)
  /\ dbPlayers' = [dbPlayers EXCEPT ![cPlayerId[c]].is_active = FALSE]
  /\ seq' = seq + 1
  /\ pending' = Notified
  /\ cSession' = [cSession EXCEPT ![c] = NoCSession]
  /\ cPlayerId' = [cPlayerId EXCEPT ![c] = ""]
  /\ page' = [page EXCEPT ![c] = HomePage]
  /\ UNCHANGED <<games, dbResources, dbVotes, dbOutcome, cGamePhase, sub, net>>
  /\ UNCHANGED <<localVars, testVars, auxVars>>

\* the server-side countdown expires: the round moves to results and its
\* outcome is applied
CoordTimerExpire ==
  /\ games.exists
  /\ games.phase = "scenario"
  /\ games.timer_running
  /\ ~AnyEffectsDue
  /\ Room(0)
  /\ games' = [games EXCEPT !.phase = "results", !.timer_running = FALSE]
  /\ \E o \in DOMAIN OutcomeDeltas : ApplyOutcome(o)
  /\ pending' = Notified
  /\ seq' = seq + 1
  /\ UNCHANGED <<dbPlayers, dbVotes>>
  /\ UNCHANGED <<cSession, cPlayerId, cGamePhase, sub, net, page>>
  /\ UNCHANGED <<localVars, testVars, auxVars>>

StoreNext ==
  \/ \E c \in Hosts : CtxCreateSession(c)
  \/ \E c \in Clients : CtxJoinSession(c)
  \/ \E c \in Clients : Resubscribe(c)
  \/ \E c \in Clients : HandleEvent(c)
  \/ \E m \in net : ApplyFetch2(m)
  \/ \E c \in Clients : MountEffect(c)
  \/ \E m \in net : ApplyMount(m)
  \/ \E c \in Clients : OutcomeEffect(c)
  \/ \E m \in net : ServeOutcome(m)
  \/ \E c \in Clients : CtxStartGame(c)
  \/ \E c \in Clients : CtxNextRound(c)
  \/ \E c \in Clients : CtxCastVote(c)
  \/ \E c \in Clients : CtxLeaveSession(c)
  \/ CoordTimerExpire


\* ======================================================================
\* Test mode
\* ======================================================================

Options == {"Option A", "Option B", "Option C"}

\* recordVote's resourceChanges for an option
resourceChanges(option) ==
  [t \in ResourceTypes |->
     CASE t = "tech" ->
            IF option = "Option A" THEN -5 ELSE IF option = "Option B" THEN -3 ELSE -4
       [] t = "manpower" ->
            IF option = "Option A" THEN -3 ELSE IF option = "Option B" THEN -4 ELSE -2
       [] t = "economy" ->
            IF option = "Option A" THEN -4 ELSE IF option = "Option B" THEN -2 ELSE -5
       [] t = "happiness" ->
            IF option = "Option A" THEN -2 ELSE IF option = "Option B" THEN -5 ELSE -3
       [] OTHER ->
            IF option = "Option A" THEN -3 ELSE IF option = "Option B" THEN -4 ELSE -2]

\* the resources row createTestGame inserts
TestResources == [t \in ResourceTypes |-> 100]

TestInit ==
  /\ testSessionId = NULL
  /\ tGame = [exists |-> FALSE, current_round |-> 0]
  /\ tResources = TestResources
  /\ tVotes = << >>
  /\ testGameState = NULL
  /\ tEvents = << >>
  /\ calls = {}
  /\ voteError = FALSE

\* createTestGame(): insert the games row and the resources row, then
\* setTestSessionId, which starts the subscription
createTestGame ==
  /\ ~tGame.exists
  /\ tGame' = [exists |-> TRUE, current_round |-> 1]
  /\ tResources' = TestResources
  /\ testSessionId' = 1
  /\ UNCHANGED <<tVotes, testGameState, tEvents, calls, voteError>>
  /\ UNCHANGED <<localVars, storeVars, auxVars>>

\* another connection updates the session's games row (policies.sql lets
\* anyone update games): the row is published to the subscription
GameRowUpdated ==
  /\ tGame.exists
  /\ testSessionId # NULL
  /\ Len(tEvents) < MaxEvents
  /\ tEvents' = Append(tEvents, tGame.current_round)
  /\ UNCHANGED <<testSessionId, tGame, tResources, tVotes, testGameState, calls,
                 voteError>>
  /\ UNCHANGED <<localVars, storeVars, auxVars>>

\* the games subscription's callback: setGameState(payload.new)
GameEvent ==
  /\ tEvents # << >>
  /\ testGameState' = Head(tEvents)
  /\ tEvents' = Tail(tEvents)
  /\ UNCHANGED <<testSessionId, tGame, tResources, tVotes, calls, voteError>>
  /\ UNCHANGED <<localVars, storeVars, auxVars>>

\* recordVote(option) up to its first await: the vote row of the round the
\* caller sees is inserted; a rejected insert throws and the call ends
recordVote ==
  /\ testSessionId # NULL
  /\ testGameState # NULL
  /\ testGameState < MaxRoundT
  /\ Cardinality(calls) < MaxCalls
  /\ \E option \in Options :
       LET row == [player_id |-> "test-player", round |-> testGameState]
       IN /\ tVotes' = InsertVote(tVotes, row)
          /\ voteError' = ~VoteAccepted(tVotes, row)
          /\ calls' = IF VoteAccepted(tVotes, row)
                      THEN calls \cup {[step |-> "resources", round |-> testGameState,
                                        option |-> option]}
                      ELSE calls
  /\ UNCHANGED <<testSessionId, tGame, tResources, testGameState, tEvents>>
  /\ UNCHANGED <<localVars, storeVars, auxVars>>

\* recordVote, second await: resources.update(resourceChanges)
recordVoteResources(call) ==
  /\ call \in calls
  /\ call.step = "resources"
  /\ tResources' = resourceChanges(call.option)
  /\ calls' = (calls \ {call}) \cup {[call EXCEPT !.step = "game"]}
  /\ UNCHANGED <<testSessionId, tGame, tVotes, testGameState, tEvents, voteError>>
  /\ UNCHANGED <<localVars, storeVars, auxVars>>

\* recordVote, third await: games.update({current_round: round + 1, ...})
recordVoteGame(call) ==
  /\ call \in calls
  /\ call.step = "game"
  /\ Len(tEvents) < MaxEvents
  /\ tGame' = [tGame EXCEPT !.current_round = call.round + 1]
  /\ tEvents' = Append(tEvents, call.round + 1)
  /\ calls' = calls \ {call}
  /\ UNCHANGED <<testSessionId, tResources, tVotes, testGameState, voteError>>
  /\ UNCHANGED <<localVars, storeVars, auxVars>>

TestNext ==
  \/ createTestGame
  \/ GameRowUpdated
  \/ GameEvent
  \/ recordVote
  \/ \E call \in calls : recordVoteResources(call)
  \/ \E call \in calls : recordVoteGame(call)


LocalNext ==
  \/ createSession
  \/ joinSession
  \/ leaveSession
  \/ startGame
  \/ endGame
  \/ setPlayerReady
  \/ castVote
  \/ voteTimeout
  \/ nextRound

\* ======================================================================
\* WebSocketService
\* ======================================================================

\* private maxReconnectAttempts = 5
maxReconnectAttempts == 5

LiveStates == {"connecting", "open", "closing"}

NoOrphans == [st \in LiveStates |-> 0]

WsInit ==
  /\ wsService = "none"
  /\ ws = "null"
  /\ orphans = NoOrphans
  /\ reconnectAttempts = 0
  /\ wsTimers = 0
  /\ wsCreated = 0
  /\ wsDisconnected = FALSE

\* new WebSocketService(url, sessionId, callbacks)
WsConstruct ==
  /\ wsService = "none"
  /\ wsService' \in {"ok", "throws"}
  /\ UNCHANGED <<ws, orphans, reconnectAttempts, wsTimers, wsCreated,
                 wsDisconnected>>
  /\ UNCHANGED <<localVars, storeVars, testVars, vpVars, incVars>>

\* reconnect() without the bound on the attempts
reconnectUnbounded(timers) ==
  /\ reconnectAttempts' = reconnectAttempts + 1
  /\ wsTimers' = timers + 1

\* reconnect(): count the attempt and schedule connect(), up to the maximum;
\* timers is the number of callbacks pending when it is called
reconnect(timers) ==
  IF reconnectAttempts < maxReconnectAttempts
  THEN /\ reconnectAttempts' = reconnectAttempts + 1
       /\ wsTimers' = timers + 1
  ELSE /\ reconnectAttempts' = reconnectAttempts
       /\ wsTimers' = timers

\* the socket this.ws held stays alive, with its handlers, when this.ws is
\* overwritten
Orphaned ==
  IF ws \in LiveStates THEN [orphans EXCEPT ![ws] = @ + 1] ELSE orphans

\* the body of connect(): a new socket becomes this.ws, or the constructor of
\* WebSocket throws and the catch calls reconnect()
connect(timers) ==
  IF wsService = "ok"
  THEN /\ wsCreated < MaxSockets
       /\ wsCreated' = wsCreated + 1
       /\ orphans' = Orphaned
       /\ ws' = "connecting"
       /\ reconnectAttempts' = reconnectAttempts
       /\ wsTimers' = timers
  ELSE /\ reconnect(timers)
       /\ UNCHANGED <<ws, orphans, wsCreated>>

\* the caller calls connect()
WsConnect ==
  /\ wsService # "none"
  /\ connect(wsTimers)
  /\ wsDisconnected' = FALSE
  /\ UNCHANGED wsService
  /\ UNCHANGED <<localVars, storeVars, testVars, vpVars, incVars>>

\* a scheduled setTimeout callback runs connect()
WsTimerFires ==
  /\ wsTimers > 0
  /\ connect(wsTimers - 1)
  /\ UNCHANGED <<wsService, wsDisconnected>>
  /\ UNCHANGED <<localVars, storeVars, testVars, vpVars, incVars>>

\* onopen of the socket this.ws holds, or of an orphan
WsOpens ==
  /\ \/ /\ ws = "connecting"
        /\ ws' = "open"
        /\ UNCHANGED orphans
     \/ /\ orphans["connecting"] > 0
        /\ orphans' = [orphans EXCEPT !["connecting"] = @ - 1, !["open"] = @ + 1]
        /\ UNCHANGED ws
  /\ reconnectAttempts' = 0
  /\ UNCHANGED <<wsService, wsTimers, wsCreated, wsDisconnected>>
  /\ UNCHANGED <<localVars, storeVars, testVars, vpVars, incVars>>

\* onclose of a socket (the connection failed, the peer closed it, or a
\* close() completed): onDisconnect, then reconnect()
WsCloses ==
  /\ \/ /\ ws \in LiveStates
        /\ ws' = "closed"
        /\ UNCHANGED orphans
     \/ \E st \in LiveStates :
          /\ orphans[st] > 0
          /\ orphans' = [orphans EXCEPT ![st] = @ - 1]
          /\ UNCHANGED ws
  /\ reconnect(wsTimers)
  /\ UNCHANGED <<wsService, wsCreated, wsDisconnected>>
  /\ UNCHANGED <<localVars, storeVars, testVars, vpVars, incVars>>

\* disconnect(): if (this.ws) { this.ws.close(); this.ws = null; }
disconnect ==
  /\ wsService # "none"
  /\ IF ws = "null"
     THEN UNCHANGED <<ws, orphans>>
     ELSE /\ ws' = "null"
          /\ orphans' = IF ws \in LiveStates
                        THEN [orphans EXCEPT !["closing"] = @ + 1]
                        ELSE orphans
  /\ wsDisconnected' = TRUE
  /\ UNCHANGED <<wsService, reconnectAttempts, wsTimers, wsCreated>>
  /\ UNCHANGED <<localVars, storeVars, testVars, vpVars, incVars>>

WsNext ==
  \/ WsConstruct
  \/ WsConnect
  \/ WsTimerFires
  \/ WsOpens
  \/ WsCloses
  \/ disconnect

\* ======================================================================
\* VotingPanel
\* ======================================================================

\* the ids of the options the panel is given
OptionIds == {1, 2}

VpInit ==
  /\ vpMounted = FALSE
  /\ selectedOption = NULL
  /\ timeLeft = 0
  /\ hasVoted = FALSE
  /\ vpEffectDue = FALSE
  /\ vpTimer = FALSE
  /\ selectedAt = 0
  /\ onVoteCalls = << >>
  /\ vpMounts = 0

\* the panel mounts: useState(null), useState(timeRemaining),
\* useState(initialHasVoted); the effect runs after the first render
VpMount ==
  /\ ~vpMounted
  /\ vpMounts < MaxMounts
  /\ \E timeRemaining \in 1..MaxTime, initialHasVoted \in BOOLEAN :
       /\ timeLeft' = timeRemaining
       /\ hasVoted' = initialHasVoted
  /\ vpMounted' = TRUE
  /\ selectedOption' = NULL
  /\ vpEffectDue' = TRUE
  /\ vpTimer' = FALSE
  /\ selectedAt' = 0
  /\ onVoteCalls' = << >>
  /\ vpMounts' = vpMounts + 1
  /\ UNCHANGED <<localVars, storeVars, testVars, wsVars, incVars>>

\* the timer effect, after the cleanup of its previous run (clearTimeout):
\* at zero it sends the selection, otherwise it sets the next one-second timer
timerEffect ==
  /\ vpMounted
  /\ vpEffectDue
  /\ IF timeLeft <= 0
     THEN /\ vpTimer' = FALSE
          /\ IF selectedOption # NULL /\ ~hasVoted
             THEN /\ onVoteCalls' =
                       Append(onVoteCalls, [option |-> selectedOption,
                                            selectedAt |-> selectedAt])
                  /\ hasVoted' = TRUE
                  /\ vpEffectDue' = TRUE
             ELSE /\ vpEffectDue' = FALSE
                  /\ UNCHANGED <<onVoteCalls, hasVoted>>
     ELSE /\ vpTimer' = TRUE
          /\ vpEffectDue' = FALSE
          /\ UNCHANGED <<onVoteCalls, hasVoted>>
  /\ UNCHANGED <<vpMounted, selectedOption, timeLeft, selectedAt, vpMounts>>
  /\ UNCHANGED <<localVars, storeVars, testVars, wsVars, incVars>>

\* the effect's timer fires: setTimeLeft(timeLeft - 1)
VpTick ==
  /\ vpMounted
  /\ vpTimer
  /\ ~vpEffectDue
  /\ timeLeft' = timeLeft - 1
  /\ vpTimer' = FALSE
  /\ vpEffectDue' = TRUE
  /\ UNCHANGED <<vpMounted, selectedOption, hasVoted, selectedAt, onVoteCalls,
                 vpMounts>>
  /\ UNCHANGED <<localVars, storeVars, testVars, wsVars, incVars>>

\* onClick of an option: !hasVoted && setSelectedOption(option.id)
onClick ==
  /\ vpMounted
  /\ ~vpEffectDue
  /\ ~hasVoted
  /\ \E id \in OptionIds \ {selectedOption} :
       selectedOption' = id
  /\ selectedAt' = timeLeft
  /\ vpEffectDue' = TRUE
  /\ UNCHANGED <<vpMounted, timeLeft, hasVoted, vpTimer, onVoteCalls, vpMounts>>
  /\ UNCHANGED <<localVars, storeVars, testVars, wsVars, incVars>>

\* the panel unmounts: the effect's cleanup clears the timer
VpUnmount ==
  /\ vpMounted
  /\ ~vpEffectDue
  /\ vpMounted' = FALSE
  /\ selectedOption' = NULL
  /\ timeLeft' = 0
  /\ hasVoted' = FALSE
  /\ vpTimer' = FALSE
  /\ selectedAt' = 0
  /\ onVoteCalls' = << >>
  /\ UNCHANGED <<vpEffectDue, vpMounts>>
  /\ UNCHANGED <<localVars, storeVars, testVars, wsVars, incVars>>

VpNext ==
  \/ VpMount
  \/ timerEffect
  \/ VpTick
  \/ onClick
  \/ VpUnmount

\* ======================================================================
\* The Game page of the host client: the secret incentive
\* ======================================================================

HostClient == CHOOSE c \in Hosts : TRUE

\* the rounds a cached session can show: nextRound adds one to the cached
\* round whatever the coordinator answers
IncRounds == 0..(MaxRoundS + MaxInFlight)

\* const session = currentSession || debugSession
session == cSession[HostClient]

\* session?.players?.find((p) => p.id === playerId)
currentPlayer ==
  IF \E p \in session.players : p.id = cPlayerId[HostClient]
  THEN CHOOSE p \in session.players : p.id = cPlayerId[HostClient]
  ELSE [id |-> "undefined", hasVoted |-> FALSE, isEliminated |-> FALSE]

\* session?.phase || gamePhase || "lobby"
currentGamePhase ==
  IF session.has THEN session.phase ELSE cGamePhase[HostClient]

\* [session_id, currentRound, currentGamePhase, currentPlayer, fetchedRound]
GenerateDeps ==
  <<session.has, session.currentRound, currentGamePhase, currentPlayer,
    fetchedRound>>

\* [session_id, currentRound, currentGamePhase, playerId, fetchedRound]
PollDeps ==
  <<session.has, session.currentRound, currentGamePhase,
    cPlayerId[HostClient], fetchedRound>>

NoDeps == << >>

GameShown == page[HostClient].route = "game"

IncInit ==
  /\ fetchedRound = NULL
  /\ generateDeps = NoDeps
  /\ pollDeps = NoDeps
  /\ polling = {}
  /\ generateRequests = [r \in IncRounds |-> 0]

\* the page's effects run after a render that changed their dependencies;
\* its state is gone when the page is left
GenerateDue == GameShown /\ generateDeps # GenerateDeps
PollDue == GameShown /\ pollDeps # PollDeps
GameLeft ==
  ~GameShown /\ <<fetchedRound, generateDeps, pollDeps, polling>> #
                   <<NULL, NoDeps, NoDeps, {}>>
IncDue == GenerateDue \/ PollDue \/ GameLeft

\* the generateIncentive effect: in the scenario phase the host posts for the
\* round unless fetchedRound is the round
generateIncentive ==
  /\ GenerateDue
  /\ generateDeps' = GenerateDeps
  /\ generateRequests' =
       IF /\ currentGamePhase = "scenario"
          /\ currentPlayer.id = games.host_id
          /\ session.currentRound # fetchedRound
       THEN [generateRequests EXCEPT
               ![session.currentRound] = Min(@ + 1, MaxRequests)]
       ELSE generateRequests
  /\ UNCHANGED <<fetchedRound, pollDeps, polling>>
  /\ UNCHANGED <<localVars, storeVars, testVars, wsVars, vpVars>>

\* the pollForSecretIncentive effect: in the scenario phase it starts polling
\* for the round unless fetchedRound is the round
pollForSecretIncentive ==
  /\ PollDue
  /\ pollDeps' = PollDeps
  /\ polling' =
       IF /\ session.has
          /\ session.currentRound # 0
          /\ currentGamePhase = "scenario"
          /\ session.currentRound # fetchedRound
       THEN polling \cup {session.currentRound}
       ELSE polling
  /\ UNCHANGED <<fetchedRound, generateDeps, generateRequests>>
  /\ UNCHANGED <<localVars, storeVars, testVars, wsVars, vpVars>>

\* a running poll ends: with an incentive it calls setFetchedRound(round of
\* the poll); without one after its attempts, or on an error, it sets nothing
PollEnds ==
  /\ GameShown
  /\ ~IncDue
  /\ ~AnyEffectsDue
  /\ \E round \in polling, found \in BOOLEAN :
       /\ polling' = polling \ {round}
       /\ fetchedRound' = IF found THEN round ELSE fetchedRound
  /\ UNCHANGED <<generateDeps, pollDeps, generateRequests>>
  /\ UNCHANGED <<localVars, storeVars, testVars, wsVars, vpVars>>

\* the page was left: its state and its running polls are gone (a poll that
\* ends after the unmount sets state of no component)
GameUnmount ==
  /\ GameLeft
  /\ fetchedRound' = NULL
  /\ generateDeps' = NoDeps
  /\ pollDeps' = NoDeps
  /\ polling' = {}
  /\ UNCHANGED generateRequests
  /\ UNCHANGED <<localVars, storeVars, testVars, wsVars, vpVars>>

\* the host plays alone: its client, the store and the coordinator go on once
\* the page's effects have run
IncNext ==
  \/ ~IncDue /\ CtxCreateSession(HostClient)
  \/ ~IncDue /\ Resubscribe(HostClient)
  \/ ~IncDue /\ HandleEvent(HostClient)
  \/ ~IncDue /\ \E m \in net : ApplyFetch2(m)
  \/ ~IncDue /\ MountEffect(HostClient)
  \/ ~IncDue /\ \E m \in net : ApplyMount(m)
  \/ ~IncDue /\ OutcomeEffect(HostClient)
  \/ ~IncDue /\ \E m \in net : ServeOutcome(m)
  \/ ~IncDue /\ CtxStartGame(HostClient)
  \/ ~IncDue /\ CtxNextRound(HostClient)
  \/ ~IncDue /\ CtxCastVote(HostClient)
  \/ ~IncDue /\ CtxLeaveSession(HostClient)
  \/ ~IncDue /\ CoordTimerExpire
  \/ generateIncentive
  \/ pollForSecretIncentive
  \/ PollEnds
  \/ GameUnmount

\* ======================================================================
\* Specifications
\* ======================================================================

\* the state after the providers and the hook are constructed
Init == LocalInit /\ StoreInit /\ TestInit /\ WsInit /\ VpInit /\ IncInit

SpecLocal == Init /\ [][LocalNext]_vars

Spec == Init /\ [][StoreNext]_vars

SpecTest == Init /\ [][TestNext]_vars

SpecWs == Init /\ [][WsNext]_vars

SpecPanel == Init /\ [][VpNext]_vars

SpecIncentive == Init /\ [][IncNext]_vars

\* ======================================================================
\* Properties
\* ======================================================================

\* ---- C1 (SpecLocal)
\* C1: a session never holds more than four players.
C1_AtMostFourPlayers == Len(currentSession.players) <= MaxPlayers

\* ---- C2 (SpecTest)
\* C2: table votes never holds two rows of the same player for the same
\* round: a second vote of a player in a round is rejected.
C2_OneVotePerPlayerRound ==
  \A i, j \in 1..Len(tVotes) :
    (tVotes[i].player_id = tVotes[j].player_id /\ tVotes[i].round = tVotes[j].round)
      => i = j

\* a recordVote call was rejected for a round that already has the player's vote
C2_DuplicateRejected ==
  /\ voteError
  /\ \E i \in 1..Len(tVotes) : tVotes[i].round = testGameState

\* ---- C3 (SpecLocal)
\* C3: the phase becomes results only when every non-eliminated player of the
\* session has voted (the local context has no round timer).
C3_ResultsOnlyWhenAllVoted ==
  [][(gamePhase # "results" /\ gamePhase' = "results")
       => \A i \in 1..Len(currentSession.players) :
            \/ currentSession.players[i].isEliminated
            \/ currentSession.players[i].hasVoted]_vars

\* ---- C4 (SpecLocal)
\* C4: a timer of the client that runs out leaves the phase as it is.
C4_ClientTimerKeepsPhase == [][voteTimeout => gamePhase' = gamePhase]_vars

RECURSIVE AppliedDelta(_, _)
\* the sum over rounds 1..r of the recorded outcomes' deltas for resource t
AppliedDelta(r, t) ==
  IF r = 0 THEN 0
  ELSE AppliedDelta(r - 1, t)
       + (IF dbOutcome[r] = 0 THEN 0 ELSE OutcomeDeltas[dbOutcome[r]][t])

\* C6: the resources are the initial resources plus, for each round that has
\* an outcome, that outcome's deltas counted once, however many times the
\* outcome is requested.
C6_DeltasOncePerRound ==
  \A t \in ResourceTypes :
    dbResources[t] = InitialResources[t] + AppliedDelta(MaxRoundS, t)

\* both clients were answered with the same round's outcome
C6_OutcomeAnsweredTwice ==
  /\ games.phase = "results"
  /\ dbOutcome[games.current_round] # 0
  /\ \A c \in Clients : page[c].outcome = dbOutcome[games.current_round]

\* ---- C7 (SpecTest)
\* C7: no step of recording a vote changes a resource value.
C7_VoteKeepsResources ==
  [][(\/ recordVote
      \/ \E call \in calls : recordVoteResources(call)
      \/ \E call \in calls : recordVoteGame(call))
       => tResources' = tResources]_vars

\* ---- C8 (Spec)
\* C8: the state of the store a client's session was taken from never gets
\* older: a fetched state replaces the session only if it is at least as new.
C8_MonotonicDelivery ==
  [][\A c \in Clients :
       (cSession[c].has /\ cSession'[c].has) => cSession'[c].seq >= cSession[c].seq]_vars

\* ---- C9 (Spec)
\* the player a roster entry stands for, whichever id it carries
PlayerOf(id) == IF id \in {"c1", "row1"} THEN "c1" ELSE "c2"

\* nothing in flight, no event unhandled, no effect due
Quiescent ==
  /\ net = {}
  /\ \A c \in Clients : pending[c] = 0
  /\ ~AnyEffectsDue

Converged(c) ==
  /\ cSession[c].phase = games.phase
  /\ cSession[c].currentRound = games.current_round
  /\ cSession[c].scenario = games.current_scenario
  /\ cSession[c].resources = dbResources
  /\ { [p |-> PlayerOf(e.id), hasVoted |-> e.hasVoted] : e \in cSession[c].players }
       = { [p |-> q, hasVoted |-> dbPlayers[q].has_voted] :
           q \in {r \in Clients : dbPlayers[r].joined} }

\* C9: once the store stops changing and every event has been handled, the
\* session of every subscribed client equals the state of the store.
C9_Convergence ==
  Quiescent =>
    \A c \in Clients : (cSession[c].has /\ sub[c].active) => Converged(c)

\* ---- C10 (Spec)
\* a step that is a command of the coordinator
CoordinatorStep ==
  \/ \E c \in Hosts : CtxCreateSession(c)
  \/ \E c \in Clients : CtxJoinSession(c)
  \/ \E c \in Clients : CtxStartGame(c)
  \/ \E c \in Clients : CtxNextRound(c)
  \/ \E c \in Clients : HandleEvent(c)
  \/ \E m \in net : ServeOutcome(m)
  \/ CoordTimerExpire

\* C10: the session's rows change only by commands of the coordinator; no
\* client writes them itself.
C10_OnlyCoordinatorWrites == [][dbVars' # dbVars => CoordinatorStep]_vars

C12_RoundWithinMax == tGame.exists => tGame.current_round <= MaxRounds

\* a resource of the local session has reached its depletion bound
LocalDepleted == \E t \in ResourceTypes : currentSession.resources[t] <= 0

\* C13: when a resource value is at or below 0, the next advance does not
\* start a new round.
C13_DepletionEndsGame ==
  [][(currentSession # NoSession /\ LocalDepleted) =>
       currentSession'.currentRound <= currentSession.currentRound]_vars

\* the players of the local session that are not eliminated
LocalRemaining ==
  {i \in 1..Len(currentSession.players) : ~currentSession.players[i].isEliminated}

\* C14: when exactly one non-eliminated player remains in a started session,
\* no further round is started.
C14_LastPlayerEndsGame ==
  [][(currentSession.status = "in-progress" /\ Cardinality(LocalRemaining) = 1) =>
       currentSession'.currentRound <= currentSession.currentRound]_vars

\* the outcome requests of client c whose answer the page still listens to
LiveOutcomeReqs(c) ==
  {m \in net : m.kind = "outcomeReq" /\ m.c = c /\ ~m.ignore}

C15_GameOverTerminal ==
  [][(/\ currentSession.status = "completed"
      /\ \/ startGame \/ castVote \/ voteTimeout \/ nextRound
         \/ setPlayerReady \/ joinSession) =>
       /\ currentSession'.status = "completed"
       /\ currentSession'.currentRound = currentSession.currentRound
       /\ currentSession'.resources = currentSession.resources
       /\ gamePhase' = gamePhase]_vars

\* C17: joinSession on a session that is not in the lobby (status waiting)
\* leaves the roster of the session unchanged.
C17_JoinOnlyInLobby ==
  [][(joinSession /\ currentSession.status # "waiting") =>
       currentSession'.players = currentSession.players]_vars

\* C18: joinSession with a code that resolves to no session adds no player
\* and leaves the caller's current session and player id as they were.
C18_UnknownCodeChangesNothing ==
  [][\A sessionCode \in Codes :
       (/\ joinSessionWith(sessionCode)
        /\ ~(currentSession # NoSession /\ currentSession.code = sessionCode)) =>
         /\ currentSession' = currentSession
         /\ playerId' = playerId]_vars

\* a caller with a player id in a two-player session, for which the code
\* "CODE2" resolves to no session
C18_UnknownCodeCase ==
  /\ currentSession # NoSession
  /\ currentSession.code # "CODE2"
  /\ playerId # NULL
  /\ Len(currentSession.players) = 2
  /\ ENABLED joinSessionWith("CODE2")

\* the ready condition in its two variants: every player ready, or the host
\* (the first player of the roster) ready
LocalAllReady ==
  \A i \in 1..Len(currentSession.players) : currentSession.players[i].isReady

LocalHostReady ==
  Len(currentSession.players) > 0 /\ currentSession.players[1].isReady

\* C19: startGame outside the lobby, or without the ready condition, leaves
\* status, phase, scenario and players unchanged.
C19_StartOnlyFromReadyLobby ==
  [][(/\ startGame
      /\ ~(/\ currentSession.status = "waiting"
           /\ (LocalAllReady \/ LocalHostReady))) =>
       /\ currentSession'.status = currentSession.status
       /\ currentSession'.hasScenario = currentSession.hasScenario
       /\ currentSession'.players = currentSession.players
       /\ gamePhase' = gamePhase]_vars

\* C19, the ready condition alone: a start from the lobby happens only with
\* the host or every player ready.
C19_StartNeedsReady ==
  [][(startGame /\ currentSession.status = "waiting") =>
       (LocalAllReady \/ LocalHostReady)]_vars

\* C20: outside the lobby (status waiting) setPlayerReady changes no player's
\* ready flag.
C20_ReadyOnlyInLobby ==
  [][(setPlayerReady /\ currentSession.status # "waiting") =>
       \A i \in 1..Len(currentSession.players) :
         currentSession'.players[i].isReady = currentSession.players[i].isReady]_vars

\* C22: castVote outside the voting part of a started session's scenario
\* phase changes no has-voted flag and schedules no phase transition.
C22_VoteOnlyWhileVoting ==
  [][(/\ castVote
      /\ ~(/\ currentSession.status = "in-progress"
           /\ gamePhase \in {"scenario", "voting"})) =>
       /\ currentSession'.players = currentSession.players
       /\ timeouts' = timeouts]_vars

\* C23: a session that is still marked active has at least one active
\* player: the leave of the last active player marks the session inactive.
C23_ActiveSessionHasPlayers ==
  (games.exists /\ games.is_active) => ActivePlayers # {}

\* C24: after createSession the session is in the lobby, its host id is the
\* id of its first player and the id held by the creator, so isHost is true.
C24_CreatorIsHost ==
  [][createSession =>
       /\ currentSession'.status = "waiting"
       /\ Len(currentSession'.players) = 1
       /\ currentSession'.hostId = currentSession'.players[1].id
       /\ currentSession'.hostId = playerId'
       /\ isHost']_vars

\* C25: after disconnect() the service opens no new connection and schedules
\* no reconnect, unless the caller calls connect() again.
C25_NoReconnectAfterDisconnect ==
  [][(wsDisconnected /\ wsDisconnected') =>
       /\ wsCreated' = wsCreated
       /\ wsTimers' <= wsTimers
       /\ reconnectAttempts' <= reconnectAttempts]_vars

\* C26: the reconnect counter never exceeds maxReconnectAttempts, it falls
\* only when a socket opens, and every scheduled connect is counted by it, so
\* at most maxReconnectAttempts connects are scheduled between two opens.
C26_ReconnectBounded ==
  /\ [](reconnectAttempts <= maxReconnectAttempts)
  /\ [][reconnectAttempts' < reconnectAttempts =>
          (WsOpens /\ reconnectAttempts' = 0)]_vars
  /\ [][wsTimers' > wsTimers =>
          reconnectAttempts' = reconnectAttempts + 1]_vars

\* every attempt failed: the service has used its five reconnects, holds a
\* closed socket and has nothing scheduled
C26_GaveUp ==
  /\ reconnectAttempts = maxReconnectAttempts
  /\ wsTimers = 0
  /\ ws = "closed"
  /\ orphans = NoOrphans
  /\ wsCreated = maxReconnectAttempts + 1
  /\ ~wsDisconnected

\* C27: once a client has left its session, no change notification makes it
\* navigate or changes its game phase: its subscription has been released.
C27_LeftClientIgnoresEvents ==
  [][\A c \in Clients :
       (~cSession[c].has /\ ~cSession'[c].has) =>
          /\ page'[c].route = page[c].route
          /\ cGamePhase'[c] = cGamePhase[c]]_vars

\* C28: the delayed transition to results that castVote schedules takes
\* effect only in the round in which the vote was cast.
C28_TimeoutInOwnRound ==
  [][(voteTimeout /\ currentSession # NoSession) =>
       Head(timeouts) = currentSession.currentRound]_vars

\* C29: every option the panel sends through onVote was selected while time
\* was remaining, and a panel instance calls onVote at most once.
C29_VoteSelectedInTime ==
  /\ \A i \in DOMAIN onVoteCalls : onVoteCalls[i].selectedAt > 0
  /\ Len(onVoteCalls) <= 1

\* a panel instance calls onVote at most once
C29_VoteSentOnce == Len(onVoteCalls) <= 1

====
